---- MODULE Spec2Model ----
(***************************************************************************)
(* Emojiton (script.js): the grid, the main-thread A* engine with its path *)
(* cache (class AStar), the worker A* engine (createAStarWorker) and the   *)
(* Game orchestrator that dispatches findPath to one of the two.           *)
(*                                                                         *)
(* Costs are JavaScript doubles in the source.  The model keeps them exact *)
(* as integers in units of 1/10000: every product base * mult of the       *)
(* source (1.0 or 1.414 times 0.7, 1, 1.15, 1.2, 1.3) is a whole number of  *)
(* such units.  Infinity is a number larger than every reachable cost.     *)
(***************************************************************************)
EXTENDS Integers, Sequences, FiniteSets, TLC

(* ------------------------------------------------------------------ *)
(* Bounds of the model                                                 *)
(* ------------------------------------------------------------------ *)
\* rows and columns of the grid of the engine specification
EngRows == 3
EngCols == 4
\* at most this many non-empty cells in an input grid of SpecEngines
MaxSpecial == 2
\* rows and columns of the grid of the Game specification
GameRows == 2
GameCols == 3
\* Game.findPath calls, grid edits and caller mutations in one behaviour
MaxCalls == 2
MaxEdits == 2
MaxMuts == 1
\* columns of the one-row grid of SpecCorridor beyond the cache threshold
CorridorExtra == 2
\* AStar.findPath calls in one behaviour of SpecCorridor
CorridorCalls == 3
\* at most this many non-empty cells in an input grid of SpecExample
MaxBlocked == 1
\* AStar.findPath calls in one behaviour of SpecSearch
SearchCalls == 1
\* at most this many non-empty cells in an input grid of SpecSim
SimTiles == 2
\* columns of the one-row grid of SpecUndo, and the user operations (edits,
\* undo, redo) in one behaviour
UndoCols == 2
MaxOps == 4

(* ------------------------------------------------------------------ *)
(* Program constants                                                   *)
(* ------------------------------------------------------------------ *)
\* 1.0, the cost of an orthogonal step, in model units
OrthBase == 10000
\* 1.414, the cost of a diagonal step, in model units
DiagBase == 14140
\* Float64Array.fill(Infinity)
Infinity == 1000000000
\* if(path.length < 512) this.cache.set(...)
CacheMaxLen == 512

(* ------------------------------------------------------------------ *)
(* Terrain                                                             *)
(* ------------------------------------------------------------------ *)
\* tile classes the source distinguishes (the emoji strings themselves
\* are opaque): '' | road | parking | evergreen/tree | construction/factory |
\* car/ufo | bike | anything else (house, office).  A tile is any string (the
\* tile prompt of a cell and the emoji registry take free text): "officecar"
\* is a tile that holds a workplace emoji and a car emoji
Terrain == {"empty", "road", "parking", "tree", "factory", "car", "bike", "house", "office",
            "officecar"}

\* MaskBit with every tile passable
MaskBitOpen(tile) == 1

\* Game.findPath, the mask expression: empty, road, car/bike/ufo are passable
MaskBit(tile) == IF tile \in {"empty", "road", "car", "bike", "officecar"} THEN 1 ELSE 0

\* AStar.getMoveCost, the multiplier in thousandths
Mult(tile) ==
  IF tile \in {"car", "officecar"} THEN 1200
  ELSE IF tile = "factory" THEN 1300
  ELSE IF tile = "tree" THEN 1150
  ELSE IF tile \in {"road", "parking"} THEN 700
  ELSE 1000

(* ------------------------------------------------------------------ *)
(* Grid: rows, cols and the flat row-major cells array.  JavaScript     *)
(* index i is position i+1 of the TLA+ sequence.                       *)
(* ------------------------------------------------------------------ *)
\* Grid.index
index(grid, r, c) == r * grid.cols + c

\* Grid.get
GridGet(grid, r, c) == grid.cells[index(grid, r, c) + 1]

\* new Grid(rows, cols): cells filled with ''
NewGrid(rows, cols) ==
  [rows |-> rows, cols |-> cols, cells |-> [i \in 1..(rows * cols) |-> "empty"]]

CellsOf(grid) == (0..(grid.rows - 1)) \X (0..(grid.cols - 1))

\* cell of a flat index: Math.floor(k / cols), k % cols
CellAt(cols, k) == <<k \div cols, k % cols>>

\* Game.findPath, lines building the Uint8Array mask
BuildMask(grid) == [i \in 0..(grid.rows * grid.cols - 1) |-> MaskBit(grid.cells[i + 1])]

Abs(x) == IF x < 0 THEN -x ELSE x
Max(a, b) == IF a > b THEN a ELSE b

(* ------------------------------------------------------------------ *)
(* Main-thread engine: class AStar                                     *)
(* ------------------------------------------------------------------ *)
\* the dirs array of AStar.neighbors (diagonal = true) and of the worker
Dirs == << <<1, 0>>, <<-1, 0>>, <<0, 1>>, <<0, -1>>, <<1, 1>>, <<1, -1>>, <<-1, 1>>, <<-1, -1>> >>

\* AStar.heuristic with this.diagonal = true
heuristic(a, b) == Max(Abs(a[1] - b[1]), Abs(a[2] - b[2])) * OrthBase

\* AStar.getMoveCost
getMoveCost(grid, r1, c1, r2, c2) ==
  LET base == IF r1 # r2 /\ c1 # c2 THEN DiagBase ELSE OrthBase
  IN  (base * Mult(GridGet(grid, r2, c2))) \div 1000

\* open.add(k) on a Set: insertion order kept, no duplicate
SetAdd(open, k) == IF \E i \in 1..Len(open) : open[i] = k THEN open ELSE Append(open, k)

\* open.delete(k)
SetDelete(open, k) == SelectSeq(open, LAMBDA x : x # k)

\* the scan "for(const k of open){ if(f[k] < min){ min=f[k]; current=k; } }":
\* the first member, in insertion order, of least f
PickLowest(open, f) ==
  LET best == CHOOSE i \in 1..Len(open) :
                /\ \A j \in 1..Len(open) : f[open[i]] <= f[open[j]]
                /\ \A j \in 1..(i - 1) : f[open[j]] > f[open[i]]
  IN  open[best]

\* SyncRelax that also tests the passability of the cell it expands from
SyncRelaxFrom(st, grid, goal, mask, current, d) ==
  LET cols == grid.cols
      cr == current \div cols
      cc == current % cols
      nr == cr + Dirs[d][1]
      nc == cc + Dirs[d][2]
      ni == nr * cols + nc
      cost == st.g[current] + getMoveCost(grid, cr, cc, nr, nc)
  IN  IF ~(nr >= 0 /\ nc >= 0 /\ nr < grid.rows /\ nc < grid.cols) THEN st
      ELSE IF mask[ni] = 0 \/ mask[current] = 0 THEN st
      ELSE IF cost < st.g[ni]
        THEN [st EXCEPT !.came[ni] = current,
                        !.g[ni] = cost,
                        !.f[ni] = cost + heuristic(<<nr, nc>>, goal),
                        !.open = SetAdd(st.open, ni),
                        !.reopened = st.reopened \/ (ni \in st.closed)]
        ELSE st

\* the body of "for(const n of this.neighbors(cr,cc))" for direction d
SyncRelax(st, grid, goal, mask, current, d) ==
  LET cols == grid.cols
      cr == current \div cols
      cc == current % cols
      nr == cr + Dirs[d][1]
      nc == cc + Dirs[d][2]
      ni == nr * cols + nc
      cost == st.g[current] + getMoveCost(grid, cr, cc, nr, nc)
  IN  IF ~(nr >= 0 /\ nc >= 0 /\ nr < grid.rows /\ nc < grid.cols) THEN st
      ELSE IF mask[ni] = 0 THEN st
      ELSE IF cost < st.g[ni]
        THEN [st EXCEPT !.came[ni] = current,
                        !.g[ni] = cost,
                        !.f[ni] = cost + heuristic(<<nr, nc>>, goal),
                        !.open = SetAdd(st.open, ni),
                        !.reopened = st.reopened \/ (ni \in st.closed)]
        ELSE st

RECURSIVE SyncRelaxAll(_, _, _, _, _, _)
SyncRelaxAll(st, grid, goal, mask, current, d) ==
  IF d > Len(Dirs) THEN st
  ELSE \* the state after direction d is bound to s, so that it is computed
       \* once (an operator's argument is computed again at each of its uses
       \* in the evaluation of ENABLED)
       CHOOSE r \in {SyncRelaxAll(s, grid, goal, mask, current, d + 1) :
                        s \in {SyncRelax(st, grid, goal, mask, current, d)}} : TRUE

\* AStar.findPath: the state set up before the while loop.
\* closed and reopened are history fields: the cells removed from open so
\* far, and whether one of them was put back.
SyncStart(grid, start, goal) ==
  LET size == grid.rows * grid.cols
      startIdx == start[1] * grid.cols + start[2]
  IN  [g |-> [i \in 0..(size - 1) |-> IF i = startIdx THEN 0 ELSE Infinity],
       f |-> [i \in 0..(size - 1) |-> IF i = startIdx THEN heuristic(start, goal) ELSE Infinity],
       came |-> [i \in 0..(size - 1) |-> -1],
       open |-> <<startIdx>>,
       brk |-> FALSE,
       closed |-> {},
       reopened |-> FALSE]

\* the while loop is over: open is empty, or the break was taken
SyncLoopOver(st) == st.brk \/ st.open = <<>>

\* SyncIter without "open.delete(current)"
SyncIterKeep(st, grid, goal, mask) ==
  LET goalIdx == goal[1] * grid.cols + goal[2]
      current == PickLowest(st.open, st.f)
  IN  IF current = goalIdx THEN [st EXCEPT !.brk = TRUE]
      ELSE SyncRelaxAll([st EXCEPT !.closed = st.closed \cup {current}],
                        grid, goal, mask, current, 1)

\* AStar.findPath: one iteration of "while(open.size)"
SyncIter(st, grid, goal, mask) ==
  LET goalIdx == goal[1] * grid.cols + goal[2]
      current == PickLowest(st.open, st.f)
  IN  IF current = goalIdx THEN [st EXCEPT !.brk = TRUE]
      ELSE SyncRelaxAll([st EXCEPT !.open = SetDelete(st.open, current),
                                   !.closed = st.closed \cup {current}],
                        grid, goal, mask, current, 1)

RECURSIVE SyncLoop(_, _, _, _)
SyncLoop(st, grid, goal, mask) ==
  IF SyncLoopOver(st) THEN st ELSE SyncLoop(SyncIter(st, grid, goal, mask), grid, goal, mask)

\* Unwind that stops at the cell without a predecessor instead of after it
RECURSIVE UnwindOpen(_, _, _, _)
UnwindOpen(came, cols, cur, path) ==
  IF came[cur] = -1 THEN path
  ELSE UnwindOpen(came, cols, came[cur], <<CellAt(cols, cur)>> \o path)

\* AStar.findPath: "while(cur !== -1){ path.unshift(...); cur = cameFrom[cur]; }"
RECURSIVE Unwind(_, _, _, _)
Unwind(came, cols, cur, path) ==
  IF cur = -1 THEN path ELSE Unwind(came, cols, came[cur], <<CellAt(cols, cur)>> \o path)

\* a result: null, or a path (a sequence of cells <<r, c>>)
Null == [isNull |-> TRUE, cells |-> <<>>]
Found(p) == [isNull |-> FALSE, cells |-> p]

\* AStar.findPath on an empty cache, from the first statement after the cache
\* lookup to the return (the cache store aside)
SyncSearch(grid, start, goal, mask) ==
  LET st == SyncLoop(SyncStart(grid, start, goal), grid, goal, mask)
      goalIdx == goal[1] * grid.cols + goal[2]
  IN  IF st.came[goalIdx] = -1 THEN Null
      ELSE Found(Unwind(st.came, grid.cols, goalIdx, <<>>))

(* ------------------------------------------------------------------ *)
(* Worker engine: the onmessage handler of createAStarWorker            *)
(* ------------------------------------------------------------------ *)
\* the worker's h(a, b)
h(a, b) == Max(Abs(a[1] - b[1]), Abs(a[2] - b[2])) * OrthBase

\* heap[i] of the JavaScript array (0-based)
HeapAt(heap, i) == heap[i + 1]

HeapSwap(heap, i, j) ==
  [heap EXCEPT ![i + 1] = heap[j + 1], ![j + 1] = heap[i + 1]]

\* the worker's siftUp(i)
RECURSIVE siftUp(_, _, _)
siftUp(heap, f, i) ==
  IF i > 0
    THEN LET p == (i - 1) \div 2
         IN  IF f[HeapAt(heap, i)] < f[HeapAt(heap, p)]
               THEN siftUp(HeapSwap(heap, i, p), f, p)
               ELSE heap
    ELSE heap

\* the worker's siftDown(i)
RECURSIVE siftDown(_, _, _)
siftDown(heap, f, i) ==
  LET n == Len(heap)
      l == 2 * i + 1
      r == 2 * i + 2
      s1 == IF l < n /\ f[HeapAt(heap, l)] < f[HeapAt(heap, i)] THEN l ELSE i
      smallest == IF r < n /\ f[HeapAt(heap, r)] < f[HeapAt(heap, s1)] THEN r ELSE s1
  IN  IF smallest # i THEN siftDown(HeapSwap(heap, i, smallest), f, smallest) ELSE heap

\* the worker's heapPush(k)
heapPush(heap, f, k) == siftUp(Append(heap, k), f, Len(heap))

\* the worker's heapPop(), on a non-empty heap: the heap that is left
\* (the value returned is heap[0])
heapPop(heap, f) ==
  LET last == heap[Len(heap)]
      rest == SubSeq(heap, 1, Len(heap) - 1)
  IN  IF Len(rest) > 0 THEN siftDown([rest EXCEPT ![1] = last], f, 0) ELSE rest

\* the body of "for(const d of dirs)" in the worker, for direction d
WorkerRelax(st, msg, current, d) ==
  LET cols == msg.cols
      cr == current \div cols
      cc == current % cols
      nr == cr + Dirs[d][1]
      nc == cc + Dirs[d][2]
      ni == nr * cols + nc
      base == IF Dirs[d][1] # 0 /\ Dirs[d][2] # 0 THEN DiagBase ELSE OrthBase
      tentative == st.g[current] + base
      fnew == tentative + (Abs(nr - msg.goal[1]) + Abs(nc - msg.goal[2])) * OrthBase
      f2 == [st.f EXCEPT ![ni] = fnew]
  IN  IF nr < 0 \/ nc < 0 \/ nr >= msg.rows \/ nc >= msg.cols THEN st
      ELSE IF msg.passable[ni] = 0 THEN st
      ELSE IF tentative < st.g[ni]
        THEN [st EXCEPT !.came[ni] = current,
                        !.g[ni] = tentative,
                        !.f = f2,
                        !.heap = IF st.open[ni] = 0 THEN heapPush(st.heap, f2, ni) ELSE st.heap,
                        !.open[ni] = 1]
        ELSE st

RECURSIVE WorkerRelaxAll(_, _, _, _)
WorkerRelaxAll(st, msg, current, d) ==
  IF d > Len(Dirs) THEN st
  ELSE WorkerRelaxAll(WorkerRelax(st, msg, current, d), msg, current, d + 1)

\* the worker: the state set up before "while(heap.length)"
WorkerStart(msg) ==
  LET size == msg.rows * msg.cols
      startIdx == msg.start[1] * msg.cols + msg.start[2]
  IN  [g |-> [i \in 0..(size - 1) |-> IF i = startIdx THEN 0 ELSE Infinity],
       f |-> [i \in 0..(size - 1) |-> IF i = startIdx THEN h(msg.start, msg.goal) ELSE Infinity],
       came |-> [i \in 0..(size - 1) |-> -1],
       open |-> [i \in 0..(size - 1) |-> IF i = startIdx THEN 1 ELSE 0],
       heap |-> <<startIdx>>,
       brk |-> FALSE]

WorkerLoopOver(st) == st.brk \/ st.heap = <<>>

\* the worker: one iteration of "while(heap.length)"
WorkerIter(st, msg) ==
  LET goalIdx == msg.goal[1] * msg.cols + msg.goal[2]
      current == HeapAt(st.heap, 0)
      popped == [st EXCEPT !.heap = heapPop(st.heap, st.f)]
  IN  IF current = goalIdx THEN [popped EXCEPT !.brk = TRUE]
      ELSE WorkerRelaxAll(popped, msg, current, 1)

RECURSIVE WorkerLoop(_, _)
WorkerLoop(st, msg) ==
  IF WorkerLoopOver(st) THEN st ELSE WorkerLoop(WorkerIter(st, msg), msg)

\* the worker's handler for a 'find' message: the path it posts
WorkerSearch(msg) ==
  LET st == WorkerLoop(WorkerStart(msg), msg)
      goalIdx == msg.goal[1] * msg.cols + msg.goal[2]
  IN  IF st.came[goalIdx] = -1 THEN Null
      ELSE Found(Unwind(st.came, msg.cols, goalIdx, <<>>))

\* Game.findPath: the message posted to the worker
FindMsg(grid, start, goal) ==
  [start |-> start, goal |-> goal, rows |-> grid.rows, cols |-> grid.cols,
   passable |-> BuildMask(grid)]

(* ------------------------------------------------------------------ *)
(* Reference values the claims compare the engines with                 *)
(* ------------------------------------------------------------------ *)
\* 8-neighbourhood
Adjacent(p, q) == p # q /\ Abs(p[1] - q[1]) <= 1 /\ Abs(p[2] - q[2]) <= 1

\* sum of getMoveCost over the steps of a path
RECURSIVE PathCost(_, _)
PathCost(grid, p) ==
  IF Len(p) < 2 THEN 0
  ELSE getMoveCost(grid, p[1][1], p[1][2], p[2][1], p[2][2]) + PathCost(grid, Tail(p))

\* sum of the worker's step costs (1.0 / 1.414) over the steps of a path
RECURSIVE UniformCost(_)
UniformCost(p) ==
  IF Len(p) < 2 THEN 0
  ELSE (IF p[1][1] # p[2][1] /\ p[1][2] # p[2][2] THEN DiagBase ELSE OrthBase)
       + UniformCost(Tail(p))

\* Bellman-Ford rounds: least getMoveCost-weighted cost from start to every
\* cell over 8-connected paths whose cells after start are passable
RECURSIVE Distances(_, _, _, _)
Distances(grid, mask, d, n) ==
  LET Least(S) == CHOOSE x \in S : \A y \in S : x <= y
      step(q) ==
        IF mask[index(grid, q[1], q[2])] = 0 THEN d[q]
        ELSE Least({d[q]} \cup
                   {d[p] + getMoveCost(grid, p[1], p[2], q[1], q[2]) :
                      p \in {p \in CellsOf(grid) : Adjacent(p, q) /\ d[p] < Infinity}})
      nd == [q \in CellsOf(grid) |-> step(q)]
  IN  IF n = 0 \/ nd = d THEN d ELSE Distances(grid, mask, nd, n - 1)

\* least cost of an 8-connected path from start to goal
MinCost(grid, mask, start, goal) ==
  Distances(grid, mask, [q \in CellsOf(grid) |-> IF q = start THEN 0 ELSE Infinity],
            grid.rows * grid.cols)[goal]

(* ------------------------------------------------------------------ *)
(* State                                                               *)
(* ------------------------------------------------------------------ *)
VARIABLES
  grid,       \* Game.grid: [rows, cols, cells]
  useWorker,  \* Game.useWorker
  cache,      \* Game.aStar.cache: key -> [arr: the stored array, orig: the cells
              \*   it held when stored (history)]
  arrays,     \* the arrays of cell objects ever created: array id -> sequence of object ids
  objs,       \* the cell objects {r, c} ever created: object id -> <<r, c>>
  pc,         \* position of the main thread: "idle", or inside AStar.findPath
              \*   ("loop": the while loop, "unwind": the reconstruction loop)
  frame,      \* the locals of the running AStar.findPath
  calls,      \* history: one record per Game.findPath / AStar.findPath call
  lastSync,   \* history: the latest returned main-thread call, 0 once the grid,
              \*   the cache or a returned path was changed after it
  inbox,      \* 'find' messages posted to the worker, not yet handled
  outbox,     \* 'result' messages posted by the worker, not yet dispatched
  listeners,  \* the one-shot 'message' listeners of Game.findPath, in order
  count,      \* history: calls, edits and mutations so far (bounds the model),
              \*   and the clicks on #btn-worker so far, modulo 2
  eng,        \* SpecEngines: the query and what each engine returned
  timeline    \* Game.actions, Game.actionIndex and Game.actionGen (gen: where the
              \*   generator is suspended and its local idx); history: ops, the
              \*   user operations so far, and before, the grid before the
              \*   latest Game.undo

vars == <<grid, useWorker, cache, arrays, objs, pc, frame, calls, lastSync,
          inbox, outbox, listeners, count, eng, timeline>>

\* the cache key of AStar.findPath
Key(g, start, goal) == <<start, goal, g.rows, g.cols>>

\* the cells an array holds now
Deref(a) == [i \in 1..Len(arrays[a]) |-> objs[arrays[a][i]]]

EmptyMap == [k \in {} |-> 0]
NoFrame == [call |-> 0]
NoEng == [phase |-> 0, start |-> <<0, 0>>, goal |-> <<0, 0>>, sync |-> Null, worker |-> Null]

\* a fresh history record of a call
NewCall(mode, start, goal) ==
  [mode |-> mode, start |-> start, goal |-> goal, key |-> Key(grid, start, goal),
   msg |-> FindMsg(grid, start, goal),
   consulted |-> FALSE, hit |-> FALSE, searched |-> FALSE, posted |-> FALSE,
   status |-> "running", value |-> Null, arr |-> 0, orig |-> <<>>,
   stored |-> FALSE, after |-> 0, by |-> 0, failed |-> FALSE, edited |-> FALSE,
   trip |-> FALSE, shown |-> 0]

\* a generator that has not run yet: this._actionGenerator()
NewGen == [pos |-> "new", idx |-> 0]

\* an entry of Game.actions
Action(type, r, c, next, snapshot) ==
  [type |-> type, r |-> r, c |-> c, next |-> next, snapshot |-> snapshot]

\* Game.recordAction(action)
recordAction(tl, action) ==
  [tl EXCEPT !.actions = Append(@, action),
             !.actionIndex = Len(tl.actions) + 1,
             !.gen = NewGen]

\* Game.init: recordAction({type:'init', snapshot: this.grid.toJSON()}), the
\* grid being the empty grid of the constructor
NewTimeline(g) ==
  [actions |-> <<Action("init", 0, 0, "empty", NewGrid(g.rows, g.cols))>>,
   actionIndex |-> 1,
   gen |-> NewGen,
   ops |-> <<>>,
   before |-> g]

\* the state once the application has loaded (Game.init and the load handler)
GameInit(g) ==
  /\ timeline = NewTimeline(g)
  /\ grid = g
  /\ useWorker = TRUE
  /\ cache = EmptyMap
  /\ arrays = <<>>
  /\ objs = <<>>
  /\ pc = "idle"
  /\ frame = NoFrame
  /\ calls = <<>>
  /\ lastSync = 0
  /\ inbox = <<>>
  /\ outbox = <<>>
  /\ listeners = <<>>
  /\ count = [calls |-> 0, edits |-> 0, muts |-> 0, clicks |-> 0]

(* ------------------------------------------------------------------ *)
(* AStar.findPath(start, goal, mask) on Game.aStar, with the mask that   *)
(* Game.findPath builds from the grid.  Game.findPath makes this call in *)
(* its main-thread branch; the actions below are the method itself,      *)
(* whoever calls it.                                                     *)
(* ------------------------------------------------------------------ *)
\* SyncHit without the copy: return this.cache.get(key)
SyncHitNoSlice(start, goal, limit) ==
  LET key == Key(grid, start, goal)
      id == Len(calls) + 1
  IN  /\ pc = "idle" /\ count.calls < limit
      /\ key \in DOMAIN cache
      /\ calls' = Append(calls, [NewCall("sync", start, goal) EXCEPT
                     !.consulted = TRUE, !.hit = TRUE, !.status = "done",
                     !.value = Found(Deref(cache[key].arr)),
                     !.arr = cache[key].arr,
                     !.orig = cache[key].orig,
                     !.stored = TRUE,
                     !.after = lastSync])
      /\ lastSync' = id
      /\ count' = [count EXCEPT !.calls = @ + 1]
      /\ UNCHANGED <<grid, useWorker, cache, arrays, objs, pc, frame, inbox, outbox, listeners, eng, timeline>>

\* the cache holds the key: return this.cache.get(key).slice()
SyncHit(start, goal, limit) ==
  LET key == Key(grid, start, goal)
      id == Len(calls) + 1
  IN  /\ pc = "idle" /\ count.calls < limit
      /\ key \in DOMAIN cache
      /\ arrays' = Append(arrays, arrays[cache[key].arr])
      /\ calls' = Append(calls, [NewCall("sync", start, goal) EXCEPT
                     !.consulted = TRUE, !.hit = TRUE, !.status = "done",
                     !.value = Found(Deref(cache[key].arr)),
                     !.arr = Len(arrays) + 1,
                     !.orig = cache[key].orig,
                     !.stored = TRUE,
                     !.after = lastSync])
      /\ lastSync' = id
      /\ count' = [count EXCEPT !.calls = @ + 1]
      /\ UNCHANGED <<grid, useWorker, cache, objs, pc, frame, inbox, outbox, listeners, eng, timeline>>

\* the cache does not hold the key: the search state is set up
SyncMiss(start, goal, limit) ==
  LET key == Key(grid, start, goal)
      id == Len(calls) + 1
  IN  /\ pc = "idle" /\ count.calls < limit
      /\ key \notin DOMAIN cache
      /\ pc' = "loop"
      /\ frame' = [call |-> id, st |-> SyncStart(grid, start, goal), cur |-> -1, path |-> <<>>]
      /\ calls' = Append(calls, [NewCall("sync", start, goal) EXCEPT
                     !.consulted = TRUE, !.searched = TRUE, !.after = lastSync])
      /\ count' = [count EXCEPT !.calls = @ + 1]
      /\ UNCHANGED <<grid, useWorker, cache, arrays, objs, lastSync, inbox, outbox, listeners, eng, timeline>>

\* SyncStep that also marks the expanded cell in the grid
SyncStepMarking ==
  /\ pc = "loop" /\ ~SyncLoopOver(frame.st)
  /\ frame' = [frame EXCEPT !.st = SyncIter(frame.st, grid, calls[frame.call].goal,
                                            calls[frame.call].msg.passable)]
  /\ grid' = [grid EXCEPT !.cells[PickLowest(frame.st.open, frame.st.f) + 1] = "road"]
  /\ UNCHANGED <<useWorker, cache, arrays, objs, pc, calls, lastSync,
                 inbox, outbox, listeners, count, eng, timeline>>

\* one iteration of the while loop
SyncStep ==
  /\ pc = "loop" /\ ~SyncLoopOver(frame.st)
  /\ frame' = [frame EXCEPT !.st = SyncIter(frame.st, grid, calls[frame.call].goal,
                                            calls[frame.call].msg.passable)]
  /\ UNCHANGED <<grid, useWorker, cache, arrays, objs, pc, calls, lastSync,
                 inbox, outbox, listeners, count, eng, timeline>>

\* after the loop: if(cameFrom[goalIdx] === -1) return null
SyncNull ==
  LET c == calls[frame.call]
      goalIdx == c.goal[1] * grid.cols + c.goal[2]
  IN  /\ pc = "loop" /\ SyncLoopOver(frame.st)
      /\ frame.st.came[goalIdx] = -1
      /\ pc' = "idle"
      /\ frame' = NoFrame
      /\ calls' = [calls EXCEPT ![frame.call] =
                     [c EXCEPT !.status = "done", !.value = Null,
                               !.stored = (c.key \in DOMAIN cache)]]
      /\ lastSync' = frame.call
      /\ UNCHANGED <<grid, useWorker, cache, arrays, objs, inbox, outbox, listeners, count, eng, timeline>>

\* after the loop: the goal has a predecessor, the reconstruction starts
SyncFound ==
  LET c == calls[frame.call]
      goalIdx == c.goal[1] * grid.cols + c.goal[2]
  IN  /\ pc = "loop" /\ SyncLoopOver(frame.st)
      /\ frame.st.came[goalIdx] # -1
      /\ pc' = "unwind"
      /\ frame' = [frame EXCEPT !.cur = goalIdx]
      /\ UNCHANGED <<grid, useWorker, cache, arrays, objs, calls, lastSync,
                     inbox, outbox, listeners, count, eng, timeline>>

\* one iteration of "while(cur !== -1)"
SyncUnwind ==
  /\ pc = "unwind" /\ frame.cur # -1
  /\ frame' = [frame EXCEPT !.path = <<CellAt(grid.cols, frame.cur)>> \o frame.path,
                            !.cur = frame.st.came[frame.cur]]
  /\ UNCHANGED <<grid, useWorker, cache, arrays, objs, pc, calls, lastSync,
                 inbox, outbox, listeners, count, eng, timeline>>

\* Cacheable with the threshold included: path.length <= 512
CacheableInclusive(path) == Len(path) <= CacheMaxLen

\* path.length < 512
Cacheable(path) == Len(path) < CacheMaxLen

\* if(path.length < 512) this.cache.set(key, path.slice()); return path
SyncReturn ==
  LET c == calls[frame.call]
      path == frame.path
      ids == [i \in 1..Len(path) |-> Len(objs) + i]
      keep == Cacheable(path)
  IN  /\ pc = "unwind" /\ frame.cur = -1
      /\ objs' = objs \o path
      /\ arrays' = IF keep THEN arrays \o <<ids, ids>> ELSE Append(arrays, ids)
      /\ cache' = IF keep
                    THEN [k \in DOMAIN cache \cup {c.key} |->
                            IF k = c.key THEN [arr |-> Len(arrays) + 2, orig |-> path]
                            ELSE cache[k]]
                    ELSE cache
      /\ pc' = "idle"
      /\ frame' = NoFrame
      /\ calls' = [calls EXCEPT ![frame.call] =
                     [c EXCEPT !.status = "done", !.value = Found(path),
                               !.arr = Len(arrays) + 1, !.stored = keep]]
      /\ lastSync' = frame.call
      /\ UNCHANGED <<grid, useWorker, inbox, outbox, listeners, count, eng, timeline>>

(* ------------------------------------------------------------------ *)
(* Game.findPath, worker branch                                        *)
(* ------------------------------------------------------------------ *)
\* addEventListener('message', onmsg); postMessage({cmd:'find', ...}).
\* tag is history: the call the message was posted for; trip is history:
\* the caller is Game.simTick.
PostFind(start, goal, trip) ==
  LET id == Len(calls) + 1
  IN  /\ pc = "idle" /\ useWorker /\ count.calls < MaxCalls
      /\ calls' = Append(calls, [NewCall("worker", start, goal) EXCEPT
                     !.posted = TRUE, !.status = "pending", !.trip = trip])
      /\ listeners' = Append(listeners, id)
      /\ inbox' = Append(inbox, [msg |-> FindMsg(grid, start, goal), tag |-> id])
      /\ count' = [count EXCEPT !.calls = @ + 1]
      /\ UNCHANGED <<grid, useWorker, cache, arrays, objs, pc, frame, lastSync, outbox, eng, timeline>>

\* Game.findPath in worker mode, called by a caller other than Game.simTick
WorkerPost(start, goal) == PostFind(start, goal, FALSE)

\* the worker's onmessage for the oldest 'find' message
WorkerHandle ==
  /\ inbox # <<>>
  /\ outbox' = Append(outbox, [path |-> WorkerSearch(Head(inbox).msg), tag |-> Head(inbox).tag])
  /\ inbox' = Tail(inbox)
  /\ calls' = [calls EXCEPT ![Head(inbox).tag].searched = TRUE]
  /\ UNCHANGED <<grid, useWorker, cache, arrays, objs, pc, frame, lastSync, listeners, count, eng, timeline>>

\* the worker fails on the oldest 'find' message (an error is raised in the
\* worker instead of a result being posted).  The main thread registers
\* 'message' listeners only (Game.init, Game.findPath): no handler runs for
\* the error and no timer was started.  failed is history.
WorkerCrash ==
  /\ inbox # <<>>
  /\ inbox' = Tail(inbox)
  /\ calls' = [calls EXCEPT ![Head(inbox).tag].failed = TRUE]
  /\ UNCHANGED <<grid, useWorker, cache, arrays, objs, pc, frame, lastSync, outbox,
                 listeners, count, eng, timeline>>

\* Deliver without "removeEventListener('message', onmsg)"
DeliverKeep ==
  LET m == Head(outbox)
      fired == {listeners[i] : i \in 1..Len(listeners)}
  IN  /\ pc = "idle" /\ outbox # <<>>
      /\ calls' = [i \in 1..Len(calls) |->
                     IF i \in fired
                       THEN [calls[i] EXCEPT !.status = "done", !.value = m.path, !.by = m.tag,
                                             !.stored = (calls[i].key \in DOMAIN cache)]
                       ELSE calls[i]]
      /\ outbox' = Tail(outbox)
      /\ UNCHANGED <<grid, useWorker, cache, arrays, objs, pc, frame, lastSync, inbox,
                     listeners, count, eng, timeline>>

\* the calls of Renderer.animateVehicle made when the 'result' message m is
\* dispatched to the one-shot listeners of the calls in fired: one by the
\* listener of Game.init "if(p) Renderer.animateVehicle(p)", one by each
\* promise continuation of Game.simTick
\* "if(path && path.length>1) Renderer.animateVehicle(path)"
Animations(m, fired) ==
  (IF m.path.isNull THEN 0 ELSE 1)
  + Cardinality({i \in fired : calls[i].trip /\ ~m.path.isNull /\ Len(m.path.cells) > 1})

\* the main thread dispatches the oldest 'result' message: the listener of
\* Game.init runs, then every registered onmsg runs, removes itself and
\* resolves its promise with e.data.path, and the continuations of the
\* resolved promises run.  shown is history: the animateVehicle calls made
\* with the result posted for the call.
Deliver ==
  LET m == Head(outbox)
      fired == {listeners[i] : i \in 1..Len(listeners)}
      resolved == [i \in 1..Len(calls) |->
                     IF i \in fired
                       THEN [calls[i] EXCEPT !.status = "done", !.value = m.path, !.by = m.tag,
                                             !.stored = (calls[i].key \in DOMAIN cache)]
                       ELSE calls[i]]
  IN  /\ pc = "idle" /\ outbox # <<>>
      /\ calls' = [resolved EXCEPT ![m.tag].shown = @ + Animations(m, fired)]
      /\ listeners' = <<>>
      /\ outbox' = Tail(outbox)
      /\ UNCHANGED <<grid, useWorker, cache, arrays, objs, pc, frame, lastSync, inbox, count, eng, timeline>>

(* ------------------------------------------------------------------ *)
(* The user interface and the callers                                   *)
(* ------------------------------------------------------------------ *)
\* the click handlers on #btn-worker: UI.init registers one each time it
\* runs, and it runs twice while the page loads, called by Game.init and
\* then by the load handler itself
WorkerClickHandlers == 2

\* n runs of "Game.useWorker = !Game.useWorker"
RECURSIVE Toggled(_, _)
Toggled(v, n) == IF n = 0 THEN v ELSE Toggled(~v, n - 1)

\* a click on #btn-worker: every registered handler runs
ClickWorker ==
  /\ pc = "idle"
  /\ useWorker' = Toggled(useWorker, WorkerClickHandlers)
  /\ count' = [count EXCEPT !.clicks = (@ + 1) % 2]
  /\ UNCHANGED <<grid, cache, arrays, objs, pc, frame, calls, lastSync,
                 inbox, outbox, listeners, eng, timeline>>

\* history: the worker-mode calls that are pending when the grid is changed
\* are marked as edited while in flight
MarkInFlight ==
  [i \in 1..Len(calls) |->
     IF calls[i].status = "pending" THEN [calls[i] EXCEPT !.edited = TRUE] ELSE calls[i]]

\* Grid.set(r, c, val); a set that writes the value the cell already has
\* leaves the program state as it is and is left out
GridSet(r, c, val) ==
  /\ pc = "idle" /\ count.edits < MaxEdits
  /\ GridGet(grid, r, c) # val
  /\ grid' = [grid EXCEPT !.cells[index(grid, r, c) + 1] = val]
  /\ calls' = MarkInFlight
  /\ lastSync' = 0
  /\ count' = [count EXCEPT !.edits = @ + 1]
  /\ UNCHANGED <<useWorker, cache, arrays, objs, pc, frame, inbox, outbox, listeners, eng, timeline>>

\* Game.loadLevel(def): a new Grid and a new AStar (with an empty cache),
\* and recordAction({type:'setlevel', level:def})
LoadLevel(rows, cols) ==
  /\ pc = "idle" /\ count.edits < MaxEdits
  /\ grid' = NewGrid(rows, cols)
  /\ cache' = EmptyMap
  /\ calls' = MarkInFlight
  /\ lastSync' = 0
  /\ count' = [count EXCEPT !.edits = @ + 1]
  /\ timeline' = [recordAction(timeline, Action("setlevel", 0, 0, "empty", <<>>))
                    EXCEPT !.ops = Append(@, "level")]
  /\ UNCHANGED <<useWorker, arrays, objs, pc, frame, inbox, outbox, listeners, eng>>

\* the calls whose returned array a caller holds
Held == {i \in 1..Len(calls) : calls[i].mode = "sync" /\ calls[i].status = "done" /\ calls[i].arr # 0}

\* a caller removes the last element of a path it was given: p.pop()
MutatePop(i) ==
  /\ pc = "idle" /\ count.muts < MaxMuts /\ i \in Held
  /\ Len(arrays[calls[i].arr]) > 0
  /\ arrays' = [arrays EXCEPT ![calls[i].arr] = SubSeq(@, 1, Len(@) - 1)]
  /\ lastSync' = 0
  /\ count' = [count EXCEPT !.muts = @ + 1]
  /\ UNCHANGED <<grid, useWorker, cache, objs, pc, frame, calls, inbox, outbox, listeners, eng, timeline>>

\* a caller reorders a path it was given: p.reverse()
MutateReverse(i) ==
  /\ pc = "idle" /\ count.muts < MaxMuts /\ i \in Held
  /\ arrays' = [arrays EXCEPT ![calls[i].arr] = [j \in 1..Len(@) |-> @[Len(@) + 1 - j]]]
  /\ lastSync' = 0
  /\ count' = [count EXCEPT !.muts = @ + 1]
  /\ UNCHANGED <<grid, useWorker, cache, objs, pc, frame, calls, inbox, outbox, listeners, eng, timeline>>

\* a caller writes a field of a cell of a path it was given: p[j].r = v
MutateCell(i, j, v) ==
  /\ pc = "idle" /\ count.muts < MaxMuts /\ i \in Held
  /\ j \in 1..Len(arrays[calls[i].arr])
  /\ objs' = [objs EXCEPT ![arrays[calls[i].arr][j]] = <<v, @[2]>>]
  /\ lastSync' = 0
  /\ count' = [count EXCEPT !.muts = @ + 1]
  /\ UNCHANGED <<grid, useWorker, cache, arrays, pc, frame, calls, inbox, outbox, listeners, eng, timeline>>

(* ------------------------------------------------------------------ *)
(* The editing tools and the timeline: Game.recordAction, Game.undo,    *)
(* Game.redo and the generator Game._actionGenerator                    *)
(* ------------------------------------------------------------------ *)
\* Grid.set(r, c, val, true) on a grid value
SetCell(g, r, c, val) == [g EXCEPT !.cells[index(g, r, c) + 1] = val]

\* Grid.fillAll(val)
fillAll(g, val) == [g EXCEPT !.cells = [i \in 1..Len(g.cells) |-> val]]

\* the body of the replay loop of the generator for the action a
ReplayOne(g, a) ==
  IF a.type = "set" THEN SetCell(g, a.r, a.c, a.next)
  ELSE IF a.type = "fill" THEN fillAll(g, a.next)
  ELSE g

\* "for(let i=1;i<idx;i++)" over this.actions, from JavaScript index i on
RECURSIVE Replay(_, _, _, _)
Replay(g, actions, i, idx) ==
  IF i >= idx THEN g ELSE Replay(ReplayOne(g, actions[i + 1]), actions, i + 1, idx)

\* the generator from "const init = this.actions.find(...)" to the replay
\* loop: the grid is loaded from the snapshot of the first 'init' action
\* and the actions before idx are applied to it
Reconstruct(g, tl, idx) ==
  LET inits == {k \in 1..Len(tl.actions) : tl.actions[k].type = "init"}
      first == CHOOSE k \in inits : \A j \in inits : k <= j
      base == IF inits = {} THEN g ELSE tl.actions[first].snapshot
  IN  Replay(base, tl.actions, 1, idx)

Min(a, b) == IF a < b THEN a ELSE b

\* this.actionGen.next(cmd): the generator runs from where it is suspended
\* to its next yield.  A generator that has not run reads this.actionIndex
\* and stops at "const cmd = yield idx" (pos "first"); one suspended at the
\* "yield idx" that ends the loop body (pos "second") goes round to the
\* first yield; one suspended at the first yield takes cmd, moves idx,
\* rebuilds the grid and stops at the second yield.
GenNext(tl, g, cmd) ==
  LET gen == tl.gen
      idx == IF cmd = "undo" THEN Max(1, gen.idx - 1)
             ELSE IF cmd = "redo" THEN Min(Len(tl.actions), gen.idx + 1)
             ELSE Len(tl.actions)
  IN  IF gen.pos = "new" THEN [gen |-> [pos |-> "first", idx |-> tl.actionIndex], grid |-> g]
      ELSE IF gen.pos = "second" THEN [gen |-> [gen EXCEPT !.pos = "first"], grid |-> g]
      ELSE [gen |-> [pos |-> "second", idx |-> idx], grid |-> Reconstruct(g, tl, idx)]

\* the body of Game.undo and of Game.redo: actionGen.next(), then
\* actionGen.next({type: cmd})
TwoNexts(tl, g, cmd) ==
  LET one == GenNext(tl, g, "none")
  IN  GenNext([tl EXCEPT !.gen = one.gen], one.grid, cmd)

\* the grid is replaced by g and op is added to the operations so far
Edited(g, tl, op) ==
  /\ pc = "idle" /\ Len(timeline.ops) < MaxOps
  /\ grid' = g
  /\ timeline' = [tl EXCEPT !.ops = Append(@, op)]
  /\ calls' = MarkInFlight
  /\ lastSync' = 0
  /\ UNCHANGED <<useWorker, cache, arrays, objs, pc, frame, inbox, outbox, listeners,
                 count, eng>>

\* UI.applyToolToCell with the brush, eraser, rand or road tool: the action
\* is recorded, then the cell is set
ToolSet(r, c, val) ==
  Edited(SetCell(grid, r, c, val),
         recordAction(timeline, Action("set", r, c, val, <<>>)), "set")

\* UI.applyToolToCell with the fill tool
ToolFill(val) ==
  Edited(fillAll(grid, val),
         recordAction(timeline, Action("fill", 0, 0, val, <<>>)), "fill")

\* randomizeGrid(): every cell gets a random tile or '', then
\* recordAction({type:'fill', next:'randomize'})
Randomize(cells) ==
  Edited([grid EXCEPT !.cells = cells],
         recordAction(timeline, Action("fill", 0, 0, "randomize", <<>>)), "randomize")

\* the click handler of #btn-clear (confirmed): Game.grid.clear()
ClearButton == Edited(fillAll(grid, "empty"), timeline, "clear")

\* Game.undo()
Undo ==
  LET res == TwoNexts(timeline, grid, "undo")
  IN  Edited(res.grid, [timeline EXCEPT !.gen = res.gen, !.before = grid], "undo")

\* Game.redo()
Redo ==
  LET res == TwoNexts(timeline, grid, "redo")
  IN  Edited(res.grid, [timeline EXCEPT !.gen = res.gen], "redo")

(* ------------------------------------------------------------------ *)
(* Spec: the application after Game.init                                *)
(* ------------------------------------------------------------------ *)
\* the cells findPath is called with: cells of the grid and (0, cols), which
\* lies outside the grid and whose index r*cols+c is that of cell (1, 0)
QueryCells == {<<0, 0>>, <<0, GameCols - 1>>, <<0, GameCols>>}

\* the tiles the user paints
EditTerrain == {"empty", "house"}

\* the value a caller writes into a cell of a returned path
MutValue == 9

Init == GameInit(NewGrid(GameRows, GameCols)) /\ eng = NoEng

\* the main thread with the engine of the main thread: clicks on the worker
\* button, AStar.findPath step by step, grid edits, callers changing
\* returned paths
Next ==
  \/ ClickWorker
  \/ \E s \in QueryCells, t \in QueryCells : SyncHit(s, t, MaxCalls)
  \/ \E s \in QueryCells, t \in QueryCells : SyncMiss(s, t, MaxCalls)
  \/ SyncStep
  \/ SyncNull
  \/ SyncFound
  \/ SyncUnwind
  \/ SyncReturn
  \/ \E p \in CellsOf(grid), v \in EditTerrain : GridSet(p[1], p[2], v)
  \/ LoadLevel(GameRows, GameCols)
  \/ \E i \in 1..Len(calls) : MutatePop(i)
  \/ \E i \in 1..Len(calls) : MutateReverse(i)
  \/ \E i \in 1..Len(calls), j \in 1..(GameRows * GameCols) : MutateCell(i, j, MutValue)

\* the main thread with the worker engine: requests posted, handled by the
\* worker and dispatched back, between grid edits
NextWorker ==
  \/ \E s \in QueryCells, t \in QueryCells : WorkerPost(s, t)
  \/ WorkerHandle
  \/ Deliver
  \/ \E p \in CellsOf(grid), v \in EditTerrain : GridSet(p[1], p[2], v)
  \/ LoadLevel(GameRows, GameCols)

Spec == Init /\ [][Next]_vars

SpecWorker == Init /\ [][NextWorker]_vars

\* the worker branch with a worker that can fail.  The worker takes every
\* message it was sent, and the main thread's event loop dispatches every
\* message it received.
NextWorkerFail ==
  \/ \E s \in QueryCells, t \in QueryCells : WorkerPost(s, t)
  \/ WorkerHandle
  \/ WorkerCrash
  \/ Deliver

SpecWorkerFail ==
  /\ Init
  /\ [][NextWorkerFail]_vars
  /\ WF_vars(WorkerCrash \/ WorkerHandle)
  /\ WF_vars(Deliver)

(* ------------------------------------------------------------------ *)
(* SpecCorridor: AStar.findPath on a one-row grid longer than the cache *)
(* threshold, where paths of 512 cells and more exist                   *)
(* ------------------------------------------------------------------ *)
CorridorStarts == {<<0, 0>>, <<0, 1>>}
CorridorGoals == {<<0, 1>>, <<0, CacheMaxLen - 1>>}

InitCorridor == GameInit(NewGrid(1, CacheMaxLen + CorridorExtra)) /\ eng = NoEng

NextCorridor ==
  \/ \E s \in CorridorStarts, t \in CorridorGoals : SyncHit(s, t, CorridorCalls)
  \/ \E s \in CorridorStarts, t \in CorridorGoals : SyncMiss(s, t, CorridorCalls)
  \/ SyncStep
  \/ SyncNull
  \/ SyncFound
  \/ SyncUnwind
  \/ SyncReturn

SpecCorridor == InitCorridor /\ [][NextCorridor]_vars

(* ------------------------------------------------------------------ *)
(* SpecEngines: the two engines as functions of the grid, start and     *)
(* goal; the main-thread engine starts from an empty cache              *)
(* ------------------------------------------------------------------ *)
\* the non-empty tiles of the input grids
EngTerrain == {"road", "car", "house"}

\* the grids of rows x cols with at most special non-empty cells, their
\* tiles taken from terrain
GridsOf(rows, cols, special, terrain) ==
  LET n == rows * cols
      UpTo[k \in 0..special] ==
        IF k = 0 THEN {{}}
        ELSE UpTo[k - 1] \cup {S \cup {i} : S \in UpTo[k - 1], i \in 1..n}
      Spots == UpTo[special]
  IN  UNION {{[rows |-> rows, cols |-> cols,
               cells |-> [i \in 1..n |-> IF i \in S THEN t[i] ELSE "empty"]] :
              t \in [S -> terrain]} : S \in Spots}

\* the grids of rows x cols with at most special non-empty cells
GridsWith(rows, cols, special) == GridsOf(rows, cols, special, EngTerrain)

\* the grids of rows x cols with at most MaxSpecial non-empty cells
EngGrids(rows, cols) == GridsWith(rows, cols, MaxSpecial)

InitEngines ==
  /\ \E g \in EngGrids(EngRows, EngCols) : GameInit(g)
  /\ \E s \in CellsOf(grid), t \in CellsOf(grid) :
       eng = [phase |-> 1, start |-> s, goal |-> t, sync |-> Null, worker |-> Null]

\* new AStar(grid).findPath(start, goal, mask)
CallSync ==
  /\ eng.phase = 1
  /\ eng' = [eng EXCEPT !.phase = 2,
                        !.sync = SyncSearch(grid, eng.start, eng.goal, BuildMask(grid))]
  /\ UNCHANGED <<grid, useWorker, cache, arrays, objs, pc, frame, calls, lastSync,
                 inbox, outbox, listeners, count, timeline>>

\* the worker's answer to the 'find' message Game.findPath builds
CallWorker ==
  /\ eng.phase = 2
  /\ eng' = [eng EXCEPT !.phase = 3,
                        !.worker = WorkerSearch(FindMsg(grid, eng.start, eng.goal))]
  /\ UNCHANGED <<grid, useWorker, cache, arrays, objs, pc, frame, calls, lastSync,
                 inbox, outbox, listeners, count, timeline>>

NextEngines == CallSync \/ CallWorker

SpecEngines == InitEngines /\ [][NextEngines]_vars

(* ------------------------------------------------------------------ *)
(* SpecExample: the two engines on the 3 x 3 grids of the example       *)
(* scenarios, with at most MaxBlocked non-empty cells                   *)
(* ------------------------------------------------------------------ *)
InitExample ==
  /\ \E g \in GridsWith(3, 3, MaxBlocked) : GameInit(g)
  /\ \E s \in CellsOf(grid), t \in CellsOf(grid) :
       eng = [phase |-> 1, start |-> s, goal |-> t, sync |-> Null, worker |-> Null]

SpecExample == InitExample /\ [][NextEngines]_vars

(* ------------------------------------------------------------------ *)
(* SpecSearch: both engines step by step on the 3 x 3 grids.  The main  *)
(* thread runs a started AStar.findPath to its return (JavaScript runs  *)
(* a call to completion), the worker takes every message posted to it   *)
(* and the event loop dispatches every message the worker posted.       *)
(* ------------------------------------------------------------------ *)
\* the cells findPath is called with
SearchCells == {<<0, 0>>, <<0, 2>>, <<1, 1>>, <<2, 2>>}

InitSearch ==
  /\ \E g \in GridsWith(3, 3, MaxBlocked) : GameInit(g)
  /\ eng = NoEng

\* a step of a running AStar.findPath
SyncRun == SyncStep \/ SyncNull \/ SyncFound \/ SyncUnwind \/ SyncReturn

\* the worker takes the oldest 'find' message.  No behaviour of SpecSearch
\* has a step of WorkerCrash, so that here every such step is a step of
\* WorkerHandle, enabled exactly when the inbox is not empty
WorkerTakes == WorkerCrash \/ WorkerHandle

NextSearch ==
  \/ \E s \in SearchCells, t \in SearchCells : SyncMiss(s, t, SearchCalls)
  \/ SyncRun
  \/ \E s \in SearchCells, t \in SearchCells : WorkerPost(s, t)
  \/ WorkerHandle
  \/ Deliver

SpecSearch ==
  /\ InitSearch
  /\ [][NextSearch]_vars
  /\ WF_vars(SyncRun)
  /\ WF_vars(WorkerTakes)
  /\ WF_vars(Deliver)

(* ------------------------------------------------------------------ *)
(* SpecSim: Game.simTick on grids with houses and workplaces, the       *)
(* worker and the dispatch of its results                               *)
(* ------------------------------------------------------------------ *)
\* the tiles of the input grids: a house, a workplace, and a workplace
\* whose tile also holds a car emoji
SimTerrain == {"house", "office", "officecar"}

\* Game.simTick: the cells pushed to houses and to works
Houses(g) == {p \in CellsOf(g) : GridGet(g, p[1], p[2]) = "house"}
Works(g) == {p \in CellsOf(g) : GridGet(g, p[1], p[2]) \in {"office", "officecar"}}

\* Game.simTick with s and d the random picks
SimTick(s, d) ==
  /\ s \in Houses(grid) /\ d \in Works(grid)
  /\ PostFind(s, d, TRUE)

InitSim ==
  /\ \E g \in GridsOf(GameRows, GameCols, SimTiles, SimTerrain) : GameInit(g)
  /\ eng = NoEng

NextSim ==
  \/ \E s \in CellsOf(grid), d \in CellsOf(grid) : SimTick(s, d)
  \/ WorkerHandle
  \/ Deliver

SpecSim == InitSim /\ [][NextSim]_vars

(* ------------------------------------------------------------------ *)
(* SpecUndo: the editing tools, undo and redo on a one-row grid         *)
(* ------------------------------------------------------------------ *)
\* the tiles the tools place: '' (eraser) and a house (brush, fill)
UndoTerrain == {"empty", "house"}

InitUndo == GameInit(NewGrid(1, UndoCols)) /\ eng = NoEng

NextUndo ==
  \/ \E p \in CellsOf(grid), v \in UndoTerrain : ToolSet(p[1], p[2], v)
  \/ ToolFill("house")
  \/ \E cells \in [1..Len(grid.cells) -> UndoTerrain] : Randomize(cells)
  \/ ClearButton
  \/ Undo
  \/ Redo

SpecUndo == InitUndo /\ [][NextUndo]_vars

(* ------------------------------------------------------------------ *)
(* Properties                                                          *)
(* ------------------------------------------------------------------ *)
\* every cell is empty, road or vehicle terrain
AllPassable(g) == \A i \in 1..Len(g.cells) : g.cells[i] \in {"empty", "road", "car"}

\* every cell has cost multiplier 1: empty, or an impassable house
UniformTerrain(g) == \A i \in 1..Len(g.cells) : g.cells[i] \in {"empty", "house"}

\* C1: on a grid whose cells are all passable (empty, road or vehicle terrain)
\* and for start # goal, the main-thread engine, called with an empty cache,
\* returns a path whose getMoveCost sum is the least over all 8-connected
\* paths from start to goal.
C1_SyncOptimal ==
  (eng.phase >= 2 /\ AllPassable(grid) /\ eng.start # eng.goal) =>
    /\ ~eng.sync.isNull
    /\ PathCost(grid, eng.sync.cells) = MinCost(grid, BuildMask(grid), eng.start, eng.goal)

\* C2: findPath(s, s) for a passable in-grid cell s returns the one-cell
\* path [s], in the main-thread engine and in the worker engine.
C2_StartEqualsGoal ==
  (eng.phase = 3 /\ eng.start = eng.goal
     /\ BuildMask(grid)[index(grid, eng.start[1], eng.start[2])] = 1) =>
    /\ eng.sync = Found(<<eng.start>>)
    /\ eng.worker = Found(<<eng.start>>)

\* the calls of the main-thread engine that have returned
SyncDone == {i \in 1..Len(calls) : calls[i].mode = "sync" /\ calls[i].status = "done"}

\* the worker-mode calls whose promise is resolved
WorkerDone == {i \in 1..Len(calls) : calls[i].mode = "worker" /\ calls[i].status = "done"}

\* the column of the wall and the wall cells that are passable in a mask
WallCol == GameCols \div 2
Gaps(c) == {r \in 0..(c.msg.rows - 1) : c.msg.passable[r * c.msg.cols + WallCol] = 1}

\* start and goal of the call are passable cells of the grid on opposite
\* sides of the wall column
AcrossWall(c) ==
  /\ c.start[1] \in 0..(c.msg.rows - 1) /\ c.goal[1] \in 0..(c.msg.rows - 1)
  /\ c.start[2] \in 0..(WallCol - 1) /\ c.goal[2] \in (WallCol + 1)..(c.msg.cols - 1)
  /\ c.msg.passable[c.start[1] * c.msg.cols + c.start[2]] = 1
  /\ c.msg.passable[c.goal[1] * c.msg.cols + c.goal[2]] = 1

\* C3: when the grid is split by a wall without a gap, findPath between
\* passable cells on opposite sides returns null; when exactly one wall
\* cell is passable, findPath for the same start and goal returns a path
\* that passes through that cell.
C3_Reachability ==
  \A i \in SyncDone :
    LET c == calls[i] IN
    AcrossWall(c) =>
      /\ (Gaps(c) = {}) => c.value.isNull
      /\ \A r \in Gaps(c) :
           (Gaps(c) = {r}) =>
             /\ ~c.value.isNull
             /\ \E k \in 1..Len(c.value.cells) : c.value.cells[k] = <<r, WallCol>>

\* C4: on uniform-cost terrain, for every mask and every start and goal, the
\* two engines return null together, and otherwise paths of the same total
\* cost under the 1.0 / 1.414 step costs.
C4_EnginesAgree ==
  (eng.phase = 3 /\ UniformTerrain(grid)) =>
    /\ eng.sync.isNull <=> eng.worker.isNull
    /\ ~eng.sync.isNull => UniformCost(eng.sync.cells) = UniformCost(eng.worker.cells)

\* C5: each worker-mode promise resolves with the result the worker computed
\* for that call's own request, and one 'result' message resolves at most
\* one promise.
C5_ResponseMatching ==
  \A i \in WorkerDone :
    /\ calls[i].value = WorkerSearch(calls[i].msg)
    /\ \A j \in WorkerDone : calls[j].by = calls[i].by => j = i

\* call j is the main-thread call made right after call i returned, with the
\* same start, goal and mask, the grid, the cache owner and the returned
\* path untouched in between
Consecutive(i, j) ==
  /\ j \in SyncDone /\ i \in SyncDone
  /\ calls[j].after = i
  /\ calls[j].key = calls[i].key
  /\ calls[j].msg.passable = calls[i].msg.passable

\* C6 as stated: two consecutive calls with the same arguments return equal
\* cell sequences as distinct arrays, the second from the cache without
\* running the search loop.
C6_Idempotent ==
  \A i \in 1..Len(calls), j \in 1..Len(calls) :
    Consecutive(i, j) =>
      /\ ~calls[i].value.isNull /\ ~calls[j].value.isNull
      /\ calls[i].value.cells = calls[j].value.cells
      /\ calls[i].arr # calls[j].arr
      /\ calls[j].hit /\ ~calls[j].searched

\* C6 amended: two consecutive calls with the same arguments return equal
\* results (both null, or equal cell sequences in distinct arrays); the
\* second is answered from the cache without running the search loop when
\* the first returned a path of fewer than 512 cells, and runs the search
\* again when the first returned null or a path of 512 cells or more.
C6_IdempotentWhenCached ==
  \A i \in 1..Len(calls), j \in 1..Len(calls) :
    Consecutive(i, j) =>
      /\ calls[i].value = calls[j].value
      /\ ~calls[i].value.isNull => calls[i].arr # calls[j].arr
      /\ IF ~calls[i].value.isNull /\ Len(calls[i].value.cells) < CacheMaxLen
           THEN calls[j].hit /\ ~calls[j].searched
           ELSE ~calls[j].hit /\ calls[j].searched

\* C6 witness: a second consecutive call was answered from the cache
C6_Witness ==
  \E i \in 1..Len(calls), j \in 1..Len(calls) :
    Consecutive(i, j) /\ calls[j].hit /\ Len(calls[j].value.cells) > 1

\* C7: whatever a caller does to a path it was given, every later cache hit
\* for the key returns the path as it was originally computed.
C7_CacheIsolation ==
  \A i \in SyncDone : calls[i].hit => calls[i].value.cells = calls[i].orig

\* C8: every cache entry is a path of fewer than 512 cells; a call that
\* returns null or a path of 512 cells or more leaves no entry for its key
\* (the long path is still returned to the caller).
C8_CacheBound ==
  /\ \A k \in DOMAIN cache :
       /\ cache[k].arr \in 1..Len(arrays)
       /\ Len(arrays[cache[k].arr]) \in 1..(CacheMaxLen - 1)
  /\ \A i \in SyncDone :
       /\ calls[i].value.isNull => ~calls[i].stored /\ calls[i].arr = 0
       /\ (~calls[i].value.isNull /\ Len(calls[i].value.cells) >= CacheMaxLen) =>
            /\ ~calls[i].stored
            /\ calls[i].key \notin DOMAIN cache
            /\ Deref(calls[i].arr) = calls[i].value.cells
            /\ calls[i].value.cells[1] = calls[i].start
            /\ calls[i].value.cells[Len(calls[i].value.cells)] = calls[i].goal

\* C8 witness: a path of 512 cells was returned and not stored, while
\* the cache holds a shorter path
C8_Witness ==
  /\ \E i \in SyncDone : Len(calls[i].value.cells) = CacheMaxLen /\ ~calls[i].stored
  /\ \E k \in DOMAIN cache : Len(arrays[cache[k].arr]) < CacheMaxLen

\* start or goal of a call lies outside 0 <= r < rows, 0 <= c < cols
OutOfRange(c) ==
  \/ ~(c.start[1] \in 0..(c.msg.rows - 1) /\ c.start[2] \in 0..(c.msg.cols - 1))
  \/ ~(c.goal[1] \in 0..(c.msg.rows - 1) /\ c.goal[2] \in 0..(c.msg.cols - 1))

\* C9: a call whose start or goal lies outside the grid is rejected: no
\* search state is set up for it, no message is posted for it, and it adds
\* no cache entry.
C9_OutOfRangeRejected ==
  /\ pc # "idle" => ~OutOfRange(calls[frame.call])
  /\ \A m \in 1..Len(inbox) : ~OutOfRange(calls[inbox[m].tag])
  /\ \A i \in 1..Len(calls) :
       OutOfRange(calls[i]) => calls[i].key \notin DOMAIN cache

\* C10: in both modes, a search runs for a call only after the cache was
\* consulted for it, a hit runs no search, and a computed path (of fewer
\* than 512 cells) is in the cache when it is delivered.
C10_CacheInDataFlow ==
  \A i \in 1..Len(calls) :
    /\ calls[i].searched => calls[i].consulted
    /\ calls[i].hit => ~calls[i].searched
    /\ (calls[i].status = "done" /\ ~calls[i].value.isNull
          /\ Len(calls[i].value.cells) < CacheMaxLen) => calls[i].stored

\* C11: in behaviours of terrain changes and main-thread findPath calls
\* (no caller has changed a returned path), every path returned for a start
\* and goal inside the grid consists, after its first cell, only of cells
\* of the grid that are passable in the grid as it is when the call is made.
C11_NoStaleHits ==
  count.muts = 0 =>
    \A i \in SyncDone :
      LET c == calls[i] IN
      ~OutOfRange(c) =>
      \A k \in 2..Len(c.value.cells) :
        LET p == c.value.cells[k] IN
        /\ p[1] \in 0..(c.msg.rows - 1) /\ p[2] \in 0..(c.msg.cols - 1)
        /\ c.msg.passable[p[1] * c.msg.cols + p[2]] = 1

\* C12: on a grid whose cells are all passable (empty, road or vehicle
\* terrain), AStar.heuristic(a, b) is at most the least getMoveCost-weighted
\* cost of an 8-connected path from a to b.
C12_HeuristicAdmissible ==
  (eng.phase >= 2 /\ AllPassable(grid)) =>
    heuristic(eng.start, eng.goal) <= MinCost(grid, BuildMask(grid), eng.start, eng.goal)

\* C13: a worker-mode call whose request the worker failed on, without
\* posting a result, is eventually settled (with the main-thread engine's
\* result or with a failure): its promise does not stay pending forever.
C13_FailureSettles ==
  \A i \in 1..MaxCalls :
    []((i <= Len(calls) /\ calls[i].failed)
         => <>(i <= Len(calls) /\ calls[i].status # "pending"))

\* C14: a worker-mode call during whose flight the grid was edited resolves
\* with the worker's answer to the start, goal, dimensions and mask captured
\* when its request was posted.
C14_SnapshotIsolation ==
  \A i \in WorkerDone :
    calls[i].edited => calls[i].value = WorkerSearch(calls[i].msg)

\* a step of a findPath call: a call starts (a history record is added),
\* AStar.findPath is running before or after the step, the worker takes a
\* 'find' message, or a 'result' message is dispatched
FindPathStep ==
  \/ Len(calls') > Len(calls)
  \/ pc # "idle" \/ pc' # "idle"
  \/ inbox' # inbox
  \/ outbox' # outbox

\* C15: no step of a findPath call changes the grid: rows, cols and every
\* element of cells are after the step what they were before it.
C15_GridUnchanged == [][FindPathStep => grid' = grid]_vars

\* C15 witness: a call that ran the search has returned a path, and nothing
\* has happened since
C15_Witness ==
  /\ lastSync # 0
  /\ calls[lastSync].searched /\ ~calls[lastSync].value.isNull
  /\ Len(calls[lastSync].value.cells) >= 2

\* the example scenario: the 3 x 3 grid, every cell empty except the
\* impassable centre (1, 1), from (0, 0) to (2, 2)
ExampleGrid == [NewGrid(3, 3) EXCEPT !.cells[index(NewGrid(3, 3), 1, 1) + 1] = "house"]
Scenario == grid = ExampleGrid /\ eng.start = <<0, 0>> /\ eng.goal = <<2, 2>>

\* a path from start to goal by 8-neighbour steps that avoids the centre
Detour(p) ==
  /\ Len(p) >= 2 /\ p[1] = eng.start /\ p[Len(p)] = eng.goal
  /\ \A k \in 1..(Len(p) - 1) : Adjacent(p[k], p[k + 1])
  /\ \A k \in 1..Len(p) : p[k] # <<1, 1>>

\* C16 as stated: in the scenario findPath returns a path of three cells
\* that avoids (1, 1).
C16_ThreeCells ==
  (Scenario /\ eng.phase >= 2) =>
    ~eng.sync.isNull /\ Len(eng.sync.cells) = 3 /\ Detour(eng.sync.cells)

\* C16 amended: in the scenario findPath returns, in both engines, a path
\* of four cells (three moves: two orthogonal and one diagonal, cost 3.414)
\* from (0, 0) to (2, 2) that avoids (1, 1).
C16_FourCells ==
  (Scenario /\ eng.phase = 3) =>
    /\ ~eng.sync.isNull /\ Len(eng.sync.cells) = 4 /\ Detour(eng.sync.cells)
    /\ PathCost(grid, eng.sync.cells) = 2 * OrthBase + DiagBase
    /\ ~eng.worker.isNull /\ Len(eng.worker.cells) = 4 /\ Detour(eng.worker.cells)
    /\ UniformCost(eng.worker.cells) = 2 * OrthBase + DiagBase

\* C16 witness: both engines have answered the scenario
C16_Witness == Scenario /\ eng.phase = 3

\* the worker's search state before the loop and after each iteration of
\* "while(heap.length)"
RECURSIVE WorkerTrace(_, _)
WorkerTrace(st, msg) ==
  IF WorkerLoopOver(st) THEN <<st>>
  ELSE <<st>> \o WorkerTrace(WorkerIter(st, msg), msg)

\* C17: at every step of a worker search, the fCost of every cell that has
\* been given a gCost (the start cell, and every cell whose gCost was
\* lowered) is that gCost plus the Chebyshev estimate max(|dr|, |dc|) from
\* the cell to the goal.
C17_WorkerHeuristic ==
  eng.phase = 3 =>
    LET msg == FindMsg(grid, eng.start, eng.goal)
        tr == WorkerTrace(WorkerStart(msg), msg)
    IN  \A n \in 1..Len(tr) : \A i \in DOMAIN tr[n].g :
          tr[n].g[i] < Infinity =>
            tr[n].f[i] = tr[n].g[i] + h(CellAt(msg.cols, i), msg.goal)

\* the cell the next heapPop returns has the least fCost of the heap
PopsMinimum(st) ==
  \A k \in 1..Len(st.heap) : st.f[HeapAt(st.heap, 0)] <= st.f[st.heap[k]]

\* the cells whose gCost one iteration lowered, from state a to state b
Lowered(a, b) == {i \in DOMAIN a.g : b.g[i] < a.g[i]}

\* cell i waits in the heap below a parent of no greater fCost
Queued(st, i) ==
  \E k \in 1..Len(st.heap) :
    /\ st.heap[k] = i
    /\ k > 1 => st.f[st.heap[k \div 2]] <= st.f[i]

\* C18: at every step of a worker search, the cell heapPop returns has the
\* least fCost among the members of the heap, and every cell whose gCost an
\* iteration lowered is afterwards in the heap, in heap order, to be expanded
\* with its new cost.
C18_WorkerFrontier ==
  eng.phase = 3 =>
    LET msg == FindMsg(grid, eng.start, eng.goal)
        tr == WorkerTrace(WorkerStart(msg), msg)
    IN  /\ \A n \in 1..Len(tr) : ~WorkerLoopOver(tr[n]) => PopsMinimum(tr[n])
        /\ \A n \in 1..(Len(tr) - 1) :
             \A i \in Lowered(tr[n], tr[n + 1]) : Queued(tr[n + 1], i)

\* C19: during a search of the main-thread engine no cell that was removed
\* from the open set (expanded) is added to the open set again, whatever the
\* terrain and the mask.
C19_NoReopening ==
  eng.phase >= 2 =>
    ~SyncLoop(SyncStart(grid, eng.start, eng.goal), grid, eng.goal, BuildMask(grid)).reopened

\* the main-thread engine's search state before the loop and after each
\* iteration of "while(open.size)"
RECURSIVE SyncTrace(_, _, _, _)
SyncTrace(st, g, goal, mask) ==
  IF SyncLoopOver(st) THEN <<st>>
  ELSE <<st>> \o SyncTrace(SyncIter(st, g, goal, mask), g, goal, mask)

\* a path from start to goal without a repeated cell, inside the grid, by
\* 8-neighbour steps, passable after its first cell
WellFormed(p, msg) ==
  /\ Len(p) >= 1 /\ p[1] = msg.start /\ p[Len(p)] = msg.goal
  /\ \A j \in 1..Len(p), k \in 1..Len(p) : j # k => p[j] # p[k]
  /\ \A k \in 1..Len(p) : p[k] \in (0..(msg.rows - 1)) \X (0..(msg.cols - 1))
  /\ \A k \in 1..(Len(p) - 1) : Adjacent(p[k], p[k + 1])
  /\ \A k \in 2..Len(p) : msg.passable[p[k][1] * msg.cols + p[k][2]] = 1

\* the cameFrom links of a search state: the start has none, and gCost
\* strictly decreases along every link (so the links are acyclic)
LinksDescend(st, msg) ==
  /\ st.came[msg.start[1] * msg.cols + msg.start[2]] = -1
  /\ \A i \in DOMAIN st.came :
       st.came[i] # -1 => st.came[i] \in DOMAIN st.g /\ st.g[st.came[i]] < st.g[i]

\* C20: for a start and goal inside the grid, every path either engine
\* returns begins with start, ends with goal, repeats no cell, lies inside
\* the grid, moves by 8-neighbour steps and is passable after its first
\* cell; at every step of either search the start has no cameFrom link and
\* gCost strictly decreases along every cameFrom link.
C20_WellFormed ==
  eng.phase = 3 =>
    LET msg == FindMsg(grid, eng.start, eng.goal)
        ts == SyncTrace(SyncStart(grid, eng.start, eng.goal), grid, eng.goal, msg.passable)
        tw == WorkerTrace(WorkerStart(msg), msg)
    IN  /\ ~eng.sync.isNull => WellFormed(eng.sync.cells, msg)
        /\ ~eng.worker.isNull => WellFormed(eng.worker.cells, msg)
        /\ \A n \in 1..Len(ts) : LinksDescend(ts[n], msg)
        /\ \A n \in 1..Len(tw) : LinksDescend(tw[n], msg)

\* C20 witness: both engines returned a path of three cells or more on a
\* grid with an impassable cell
C20_Witness ==
  /\ eng.phase = 3
  /\ ~eng.sync.isNull /\ Len(eng.sync.cells) >= 3
  /\ ~eng.worker.isNull /\ Len(eng.worker.cells) >= 3
  /\ \E i \in 1..Len(grid.cells) : grid.cells[i] = "house"

\* the heap holds no cell twice
HeapDistinct(st) ==
  \A j \in 1..Len(st.heap), k \in 1..Len(st.heap) : j # k => st.heap[j] # st.heap[k]

\* a trace of the worker's loop in which no cell is pushed twice: no heap
\* holds a cell twice, and a cell that was popped is in no later heap
PushedOnce(tr) ==
  /\ \A n \in 1..Len(tr) : HeapDistinct(tr[n])
  /\ \A n \in 1..(Len(tr) - 1), m \in 1..Len(tr) :
       m > n => \A k \in 1..Len(tr[m].heap) : tr[m].heap[k] # HeapAt(tr[n].heap, 0)

\* the worker's loop for every posted request: at most rows * cols pops,
\* every cell pushed at most once
WorkerBounded ==
  \A i \in 1..Len(calls) :
    calls[i].mode = "worker" =>
      \A tr \in {WorkerTrace(WorkerStart(calls[i].msg), calls[i].msg)} :
        Len(tr) - 1 <= calls[i].msg.rows * calls[i].msg.cols /\ PushedOnce(tr)

\* the worker takes a 'find' message exactly when it posts a 'result'
\* message, and it posts one message for the message it took
OneResultPerFind ==
  /\ Len(inbox') < Len(inbox) <=> Len(outbox') > Len(outbox)
  /\ Len(inbox') < Len(inbox) =>
       /\ inbox' = Tail(inbox)
       /\ Len(outbox') = Len(outbox) + 1
       /\ outbox'[Len(outbox')].tag = Head(inbox).tag
       /\ SubSeq(outbox', 1, Len(outbox)) = outbox

\* C21: a started AStar.findPath returns (its search loop and its
\* reconstruction loop finish); the worker's loop makes at most rows * cols
\* pops and pushes no cell twice; the worker answers every 'find' request,
\* with exactly one 'result' message.
C21_Termination ==
  /\ [](pc # "idle" => <>(pc = "idle"))
  /\ []WorkerBounded
  /\ [][OneResultPerFind]_vars
  /\ \A i \in 1..MaxCalls :
       []((i <= Len(calls) /\ calls[i].posted) => <>(i <= Len(calls) /\ calls[i].searched))

\* C21 witness: on a grid with a house a main-thread call returned a path of
\* three cells or more, and the worker has answered a request
C21_Witness ==
  /\ \E i \in SyncDone : Len(calls[i].value.cells) >= 3
  /\ \E i \in 1..Len(calls) : calls[i].mode = "worker" /\ calls[i].searched
  /\ \E k \in 1..Len(grid.cells) : grid.cells[k] = "house"

\* C22: with a worker that takes every 'find' message and an event loop that
\* dispatches every 'result' message, every worker-mode promise is
\* eventually resolved, however many requests are in flight and however
\* they interleave; once every posted request has been answered and the
\* answer dispatched, no one-shot listener of Game.findPath is registered.
C22_WorkerLiveness ==
  /\ \A i \in 1..MaxCalls :
       []((i <= Len(calls) /\ calls[i].status = "pending")
            => <>(i <= Len(calls) /\ calls[i].status = "done"))
  /\ []((inbox = <<>> /\ outbox = <<>>) => listeners = <<>>)

\* C22 witness: two requests were in flight together (the result posted for
\* the first resolved both promises), and every request has been answered
C22_Witness ==
  /\ Len(calls) >= 2
  /\ {1, 2} \subseteq WorkerDone
  /\ calls[1].by = 1 /\ calls[2].by = 1
  /\ inbox = <<>> /\ outbox = <<>>

\* the mask that differs from mask in the value at index i only
Flip(mask, i) == [mask EXCEPT ![i] = 1 - @]

\* what the two engines return for the query of eng under a mask
SyncUnder(mask) == SyncSearch(grid, eng.start, eng.goal, mask)
WorkerUnder(mask) == WorkerSearch([FindMsg(grid, eng.start, eng.goal) EXCEPT !.passable = mask])

\* C23: for start # goal, each engine returns the same result under two
\* masks that differ only in the value at the goal cell.
C23_GoalUnchecked ==
  (eng.phase = 3 /\ eng.start # eng.goal) =>
    LET mask == BuildMask(grid)
        other == Flip(mask, index(grid, eng.goal[1], eng.goal[2]))
    IN  /\ SyncUnder(other) = SyncUnder(mask)
        /\ WorkerUnder(other) = WorkerUnder(mask)

\* C24: each engine returns the same result under two masks that differ
\* only in the value at the start cell: a search from an impassable start
\* is carried out as from a passable one.
C24_StartUnchecked ==
  eng.phase = 3 =>
    LET mask == BuildMask(grid)
        other == Flip(mask, index(grid, eng.start[1], eng.start[2]))
    IN  /\ SyncUnder(other) = eng.sync /\ SyncUnder(mask) = eng.sync
        /\ WorkerUnder(other) = eng.worker /\ WorkerUnder(mask) = eng.worker

\* C24 witness: from a start that is a house, impassable in the mask, both
\* engines returned a path of three cells or more
C24_Witness ==
  /\ eng.phase = 3
  /\ GridGet(grid, eng.start[1], eng.start[2]) = "house"
  /\ ~eng.sync.isNull /\ Len(eng.sync.cells) >= 3
  /\ ~eng.worker.isNull /\ Len(eng.worker.cells) >= 3

\* C26: every click on #btn-worker negates Game.useWorker: after an odd
\* number of clicks Game.useWorker is false (Game.findPath then runs the
\* main-thread engine), after an even number it is true.
C26_ModeSelectable == useWorker <=> (count.clicks = 0)

\* the house and the workplace of a trip are joined by a chain of 8-adjacent
\* cells, passable in the mask of the call, that touches both
Joined(c) ==
  \E q \in CellsOf(grid) :
    /\ Adjacent(q, c.goal)
    /\ c.msg.passable[index(grid, q[1], q[2])] = 1
    /\ MinCost(grid, c.msg.passable, c.start, q) < Infinity

\* C25: the promise of a Game.simTick trip whose house and workplace are
\* joined by a chain of passable cells resolves to a path (not null) from
\* the house to the workplace.
C25_TripSucceeds ==
  \A i \in WorkerDone :
    (calls[i].trip /\ Joined(calls[i])) =>
      /\ ~calls[i].value.isNull
      /\ calls[i].value.cells[1] = calls[i].start
      /\ calls[i].value.cells[Len(calls[i].value.cells)] = calls[i].goal

\* the 'result' message posted for call t has been dispatched
Dispatched(t) ==
  /\ calls[t].searched
  /\ \A k \in 1..Len(outbox) : outbox[k].tag # t

\* C27: for a Game.simTick trip whose search yields a path of more than one
\* cell, Renderer.animateVehicle is called exactly once with that result,
\* the listener of Game.init and the continuation in Game.simTick counted
\* together.
C27_OneAnimation ==
  \A t \in 1..Len(calls) :
    (/\ calls[t].trip /\ Dispatched(t)
     /\ ~WorkerSearch(calls[t].msg).isNull
     /\ Len(WorkerSearch(calls[t].msg).cells) > 1) => calls[t].shown = 1

\* the operations so far are user edits followed by Game.undo and Game.redo
EditsUndoRedo(ops) ==
  /\ Len(ops) >= 2
  /\ ops[Len(ops)] = "redo" /\ ops[Len(ops) - 1] = "undo"
  /\ \A k \in 1..(Len(ops) - 2) : ops[k] \in {"set", "fill", "randomize", "clear"}

\* C28: after Game.init and any sequence of user edits, Game.undo followed
\* by Game.redo leaves rows, cols and cells of the grid as they were before
\* the undo; the idx of the generator is always within 1..actions.length.
C28_UndoRedoRoundTrip ==
  /\ EditsUndoRedo(timeline.ops) => grid = timeline.before
  /\ timeline.gen.pos # "new" => timeline.gen.idx \in 1..Len(timeline.actions)

====
